---- MODULE Spec2Model ----
(***************************************************************************)
(* Model of src/main.cpp: struct Data, the predicate foobar(const Data&)   *)
(* executed statement by statement, and its two callers: main() with the   *)
(* hard-coded pair, and a test caller that constructs arbitrary pairs and  *)
(* calls foobar repeatedly.                                                *)
(*                                                                         *)
(* A uint32_t is kept at its full width.  TLC integers stop at 2^31 - 1,   *)
(* so a uint32_t value v is the record [top, low] with                     *)
(*     v = top * 2^31 + low,   top \in {0,1},   low \in 0 .. 2^31 - 1.     *)
(***************************************************************************)
EXTENDS Integers, Sequences, FiniteSets, TLC

VARIABLES caller, pc, data, result, ret, mainResult, exitStatus, calls, memo

vars == <<caller, pc, data, result, ret, mainResult, exitStatus, calls, memo>>

----------------------------------------------------------------------------
(* Bounds of the explored input space.                                     *)

MaxSmall == 3      \* the values 0 .. MaxSmall are inputs
MaxTop   == 1      \* the values 2^32-1-MaxTop .. 2^32-1 are inputs
MaxCalls == 3      \* calls of foobar made by the test caller

----------------------------------------------------------------------------
(* uint32_t                                                                *)

Low31Max == 2147483647

U32(n)     == [top |-> 0, low |-> n]
U32High(n) == [top |-> 1, low |-> n]

UINT32_MAX == U32High(Low31Max)

\* `! x` for a uint32_t x
IsZero(x) == x.top = 0 /\ x.low = 0

\* x < y, unsigned
Lt(x, y) == x.top < y.top \/ (x.top = y.top /\ x.low < y.low)

\* x - y for x >= y, unsigned
Sub(x, y) ==
    IF x.top = y.top THEN U32(x.low - y.low)
    ELSE IF x.low >= y.low THEN U32High(x.low - y.low)
    ELSE U32((Low31Max - (y.low - x.low)) + 1)

\* d % a on uint32_t, a /= 0
UMod32(d, a) ==
    IF a.top = 1
    THEN IF Lt(d, a) THEN d ELSE Sub(d, a)
    ELSE IF d.top = 0
    THEN U32(d.low % a.low)
    ELSE LET m == a.low
             p == ((Low31Max % m) + 1) % m
             q == d.low % m
         IN  U32(IF p >= m - q THEN p - (m - q) ELSE p + q)

\* Magnitude of x read as int32_t
Abs32(x) ==
    IF x.top = 0 THEN x
    ELSE IF x.low = 0 THEN x
    ELSE U32((Low31Max - x.low) + 1)

\* Two's complement negation of r, 0 <= r < 2^31
Neg32(r) == IF r.low = 0 THEN r ELSE U32High((Low31Max - r.low) + 1)

\* d % a with both operands read as int32_t (truncating, sign of d)
SMod32(d, a) ==
    LET r == UMod32(Abs32(d), Abs32(a))
    IN  IF d.top = 1 THEN Neg32(r) ELSE r

----------------------------------------------------------------------------
(* Optional values: a local not yet assigned, a call not yet returned.     *)

None    == <<>>
Some(v) == <<v>>
Val(o)  == o[1]

NoData == [none |-> TRUE]
NoMemo == [none |-> TRUE]

----------------------------------------------------------------------------
(* Inputs                                                                  *)

MainA == 5
MainD == 55

Values ==
    {U32(n) : n \in 0 .. MaxSmall}
        \cup {U32(MainA), U32(MainD), U32(MainD + 1)}
        \cup {U32(Low31Max), U32High(0)}
        \cup {U32High(Low31Max - k) : k \in 0 .. MaxTop}

----------------------------------------------------------------------------
(* foobar                                                                  *)

FoobarPcs == {"foobar11a", "foobar11b", "foobar13", "foobar14"}

\* where `return` continues
ReturnTo == IF caller = "main" THEN "main23r" ELSE "testRet"

\* a call: fresh frame, no local assigned, nothing returned yet
Invoke ==
    /\ pc' = "foobar11a"
    /\ result' = None
    /\ ret' = None
    /\ calls' = calls + 1

\* variants of the statements below, each differing from the code in one
\* place; the properties are required to tell them from the code
GuardAOmitted(x) == FALSE

GuardATestsD(x) == IsZero(x.d)

GuardDOmitted(x) == FALSE

\* ! data.a
GuardA(x) == IsZero(x.a)

\* ! data.d
GuardD(x) == IsZero(x.d)

RemainderSwapped(x) == UMod32(x.a, x.d)

RemainderSigned(x) == SMod32(x.d, x.a)

\* data.d % data.a
Remainder(x) == UMod32(x.d, x.a)

RetOfNonzero(r) == ~IsZero(r)

RetOfCounted(r) == IsZero(r) /\ calls % 2 = 1

\* result == 0
RetOf(r) == IsZero(r)

\* if (! data.a ...) return false;
Foobar11a ==
    /\ pc = "foobar11a"
    /\ IF GuardA(data)
       THEN /\ ret' = Some(FALSE)
            /\ pc' = ReturnTo
       ELSE /\ pc' = "foobar11b"
            /\ UNCHANGED ret
    /\ UNCHANGED <<caller, data, result, mainResult, exitStatus, calls, memo>>

\* if (... || ! data.d) return false;
Foobar11b ==
    /\ pc = "foobar11b"
    /\ IF GuardD(data)
       THEN /\ ret' = Some(FALSE)
            /\ pc' = ReturnTo
       ELSE /\ pc' = "foobar13"
            /\ UNCHANGED ret
    /\ UNCHANGED <<caller, data, result, mainResult, exitStatus, calls, memo>>

\* uint32_t result = data.d % data.a;  -- the variant that writes through
\* the reference: data.d %= data.a
Foobar13Writes ==
    /\ pc = "foobar13"
    /\ ~IsZero(data.a)
    /\ result' = Some(Remainder(data))
    /\ data' = [data EXCEPT !.d = Remainder(data)]
    /\ pc' = "foobar14"
    /\ UNCHANGED <<caller, ret, mainResult, exitStatus, calls, memo>>

\* uint32_t result = data.d % data.a;
\* With data.a = 0 the behaviour is undefined: the division traps, or it
\* yields some value.
Foobar13 ==
    /\ pc = "foobar13"
    /\ IF IsZero(data.a)
       THEN \/ /\ pc' = "trap"
               /\ UNCHANGED result
            \/ /\ pc' = "foobar14"
               /\ \E v \in Values : result' = Some(v)
       ELSE /\ result' = Some(Remainder(data))
            /\ pc' = "foobar14"
    /\ UNCHANGED <<caller, data, ret, mainResult, exitStatus, calls, memo>>

\* return result == 0;
Foobar14 ==
    /\ pc = "foobar14"
    /\ ret' = Some(RetOf(Val(result)))
    /\ pc' = ReturnTo
    /\ UNCHANGED <<caller, data, result, mainResult, exitStatus, calls, memo>>

----------------------------------------------------------------------------
(* main                                                                    *)

BoolToIntInverted(b) == IF b THEN 0 ELSE 1

\* bool -> int conversion of `return result;`
BoolToInt(b) == IF b THEN 1 ELSE 0

\* Data data { .a = 5, .d = 55 };
MainConstruct ==
    /\ caller = "main"
    /\ pc = "main18"
    /\ data' = [a |-> U32(MainA), d |-> U32(MainD)]
    /\ pc' = "main23"
    /\ UNCHANGED <<caller, result, ret, mainResult, exitStatus, calls, memo>>

\* foobar(data)
MainCall ==
    /\ caller = "main"
    /\ pc = "main23"
    /\ Invoke
    /\ UNCHANGED <<caller, data, mainResult, exitStatus, memo>>

\* const auto result = <returned value>;
MainAssign ==
    /\ pc = "main23r"
    /\ mainResult' = ret
    /\ pc' = "main25"
    /\ UNCHANGED <<caller, data, result, ret, exitStatus, calls, memo>>

\* return result;
MainReturn ==
    /\ pc = "main25"
    /\ exitStatus' = Some(BoolToInt(Val(mainResult)))
    /\ pc' = "exit"
    /\ UNCHANGED <<caller, data, result, ret, mainResult, calls, memo>>

----------------------------------------------------------------------------
(* A caller that applies foobar to arbitrary pairs, any number of times on *)
(* the same object or on a newly constructed one, and may remember the     *)
(* outcome of a call to compare later calls against it.                    *)

TestConstruct(a, d) ==
    /\ caller = "test"
    /\ pc \in {"testNew", "testReady"}
    /\ data' = [a |-> a, d |-> d]
    /\ pc' = "testReady"
    /\ UNCHANGED <<caller, result, ret, mainResult, exitStatus, calls, memo>>

TestCall ==
    /\ caller = "test"
    /\ pc = "testReady"
    /\ calls < MaxCalls
    /\ Invoke
    /\ UNCHANGED <<caller, data, mainResult, exitStatus, memo>>

\* The returned value is consumed and foobar's frame is gone.
TestObserve ==
    /\ pc = "testRet"
    /\ memo' \in {memo, [a |-> data.a, d |-> data.d, ret |-> ret]}
    /\ result' = None
    /\ ret' = None
    /\ pc' = "testReady"
    /\ UNCHANGED <<caller, data, mainResult, exitStatus, calls>>

----------------------------------------------------------------------------

Init ==
    /\ caller \in {"main", "test"}
    /\ pc = IF caller = "main" THEN "main18" ELSE "testNew"
    /\ data = NoData
    /\ result = None
    /\ ret = None
    /\ mainResult = None
    /\ exitStatus = None
    /\ calls = 0
    /\ memo = NoMemo

Next ==
    \/ MainConstruct
    \/ MainCall
    \/ MainAssign
    \/ MainReturn
    \/ \E a \in Values, d \in Values : TestConstruct(a, d)
    \/ TestCall
    \/ TestObserve
    \/ Foobar11a
    \/ Foobar11b
    \/ Foobar13
    \/ Foobar14

Spec == Init /\ [][Next]_vars

----------------------------------------------------------------------------
(* Shorthands for the properties                                           *)

\* foobar has just returned to its caller; data is the object it was given
Returned == pc \in {"main23r", "testRet"}

\* a step taken inside foobar leaves everything but foobar's own local,
\* return value and position as it was
FoobarFrame ==
    pc \in FoobarPcs =>
        /\ data' = data
        /\ caller' = caller
        /\ mainResult' = mainResult
        /\ exitStatus' = exitStatus
        /\ calls' = calls
        /\ memo' = memo

\* a and d are both nonzero and d mod a = 0
Divides(x) == ~IsZero(x.a) /\ ~IsZero(x.d) /\ IsZero(UMod32(x.d, x.a))

----------------------------------------------------------------------------
(* Properties                                                              *)

\* C1: when foobar has returned, it returned true if and only if a and d
\* are both nonzero and d mod a = 0, and false in every other case.
C1_DivisibilityIff ==
    Returned => /\ ret \in {Some(TRUE), Some(FALSE)}
                /\ (ret = Some(TRUE)) <=> Divides(data)

\* a call that returned true and a call on nonzero operands that returned
\* false have both happened
C1_Witness ==
    /\ pc = "testRet"
    /\ ret = Some(FALSE)
    /\ ~IsZero(data.a) /\ ~IsZero(data.d)
    /\ memo # NoMemo /\ memo.ret = Some(TRUE)

\* C2: foobar never traps or divides by zero: the modulo statement is
\* reached, and a remainder exists, only with a /= 0, and every return
\* delivers a boolean.
C2_NoDivideByZero ==
    /\ pc # "trap"
    /\ pc = "foobar13" => ~IsZero(data.a)
    /\ result # None => ~IsZero(data.a)
    /\ pc = "foobar14" => result # None
    /\ Returned => ret \in {Some(TRUE), Some(FALSE)}

\* the modulo statement has executed on an object whose d is 2^32-1
C2_Witness ==
    /\ pc = "foobar14"
    /\ result # None
    /\ data.d = UINT32_MAX

\* C3: with a = 0 foobar returns false whatever d is, and it returns from
\* the guard: no remainder has been computed.
C3_ZeroAReturnsFalse ==
    (Returned /\ IsZero(data.a)) => (ret = Some(FALSE) /\ result = None)

\* a call with a = 0 and d nonzero has returned
C3_Witness ==
    /\ Returned
    /\ IsZero(data.a)
    /\ ~IsZero(data.d)
    /\ ret = Some(FALSE)

\* C4: with d = 0 foobar returns false whatever a is, also for nonzero a.
C4_ZeroDReturnsFalse ==
    (Returned /\ IsZero(data.d)) => ret = Some(FALSE)

\* a call with d = 0 and a nonzero has returned
C4_Witness ==
    /\ Returned
    /\ IsZero(data.d)
    /\ ~IsZero(data.a)
    /\ ret = Some(FALSE)

\* C5: no step of foobar changes the caller's Data object or any state
\* other than foobar's own local, return value and position.
C5_NoSideEffects == [][FoobarFrame]_vars

\* a call that went through the modulo statement has returned, on the
\* object the caller constructed for it
C5_Witness ==
    /\ pc = "main23r"
    /\ result # None
    /\ data = [a |-> U32(MainA), d |-> U32(MainD)]

\* C6: a call on the pair (a, d) of a remembered earlier call returns what
\* that call returned, whatever calls were made in between.
C6_SameInputSameResult ==
    (pc = "testRet" /\ memo # NoMemo /\ memo.a = data.a /\ memo.d = data.d)
        => ret = memo.ret

\* the last allowed call has returned on the pair of a remembered call
C6_Witness ==
    /\ pc = "testRet"
    /\ calls = MaxCalls
    /\ memo # NoMemo
    /\ memo.a = data.a /\ memo.d = data.d
    /\ ret = Some(TRUE)

\* C7: main constructs a = 5, d = 55, calls foobar at most once before and
\* exactly once by the time it exits, and its exit status is the returned
\* boolean as an integer, which is 1.
C7_MainExitStatus ==
    caller = "main" =>
        /\ calls <= 1
        /\ exitStatus # None => pc = "exit"
        /\ pc = "exit" =>
              /\ data = [a |-> U32(MainA), d |-> U32(MainD)]
              /\ calls = 1
              /\ ret \in {Some(TRUE), Some(FALSE)}
              /\ exitStatus = Some(IF Val(ret) THEN 1 ELSE 0)
              /\ exitStatus = Some(1)

\* main has exited
C7_Witness ==
    /\ caller = "main"
    /\ pc = "exit"
    /\ exitStatus # None

\* C8: with d = a nonzero, foobar returns true, also at a = d = 2^32 - 1.
C8_SelfDivides ==
    (Returned /\ ~IsZero(data.a) /\ data.d = data.a) => ret = Some(TRUE)

\* a call with a = d = 2^32 - 1 has returned
C8_Witness ==
    /\ Returned
    /\ data.a = UINT32_MAX
    /\ data.d = UINT32_MAX

\* C9: with a = 1 and d nonzero, foobar returns true.
C9_OneDividesAll ==
    (Returned /\ data.a = U32(1) /\ ~IsZero(data.d)) => ret = Some(TRUE)

\* a call with a = 1 and d = 2^32 - 1 has returned
C9_Witness ==
    /\ Returned
    /\ data.a = U32(1)
    /\ data.d = UINT32_MAX

\* C10: with 0 < d < a the remainder computed is d itself, and foobar
\* returns false.
C10_SmallerDividendFalse ==
    (Returned /\ ~IsZero(data.d) /\ Lt(data.d, data.a))
        => (result = Some(data.d) /\ ret = Some(FALSE))

\* a call with 0 < d < 2^31 <= a has returned
C10_Witness ==
    /\ Returned
    /\ ~IsZero(data.d)
    /\ data.d.top = 0
    /\ data.a = UINT32_MAX

====
